---- MODULE Spec2Model ----
(***************************************************************************)
(* Model of upc-product-lookup/app.py: the request handlers process_upc,   *)
(* get_product and process_batch, the background job                       *)
(* process_upc_background with its pipeline (get_product_from_upcitemdb,   *)
(* format_product_data, save_product_images, get_best_image_with_gemini),  *)
(* the process-wide set processing_upcs, the Redis cache and the image     *)
(* directory.                                                              *)
(*                                                                         *)
(* Request handlers and jobs are threads.  A thread switch can happen      *)
(* between any two accesses to shared state (processing_upcs, Redis, the   *)
(* image files), so every such access is a step of its own; the code holds *)
(* no lock anywhere.                                                       *)
(***************************************************************************)
EXTENDS Integers, Sequences, FiniteSets, TLC

\* ------------------------------------------------------------------ bounds
NumHandlers == 2    \* request-handling threads that can run at once
MaxJobs     == 2    \* background job threads that can be alive at once
MaxImages   == 2    \* image URLs in a lookup record
MaxRows     == 2    \* rows of the 'upc' column of a batch file
MaxSupplied == 3    \* image paths handed to the selector

Handlers == 1..NumHandlers
JobIds   == 1..MaxJobs

\* ------------------------------------------------------------------- keys
\* A key is a string, modelled as the sequence of its characters.
Digits == {"0", "1", "2", "3", "4", "5", "6", "7", "8", "9"}

K1   == <<"1">>
K01  == <<"0", "1">>
KBad == <<"1", "a">>
Keys == {K1, K01, KBad}

\* str.isdigit(): non-empty and every character a digit.
IsDigit(upc) == Len(upc) > 0 /\ \A n \in 1..Len(upc) : upc[n] \in Digits

\* `not upc or not upc.isdigit()`
InvalidUpc(upc) == upc = <<>> \/ ~IsDigit(upc)

None == <<>>

\* ------------------------------------------------------------ cache values
\* redis_client.get(cache_key): nothing, the JSON text of a formatted result,
\* or bytes that are not JSON (written by something other than this program;
\* get_product has a handler for them).
NoEntry == [kind |-> "none"]
Junk    == [kind |-> "junk"]

\* ---------------------------------------------------------- lookup results
RemoteUrls == {<<"remote", "a", "">>}

RECURSIVE SeqsUpTo(_, _)
SeqsUpTo(S, n) ==
    IF n = 0 THEN {<<>>}
    ELSE LET shorter == SeqsUpTo(S, n - 1)
         IN  shorter \cup {Append(s, x) : s \in {t \in shorter : Len(t) = n - 1}, x \in S}

ImageLists == SeqsUpTo(RemoteUrls, MaxImages)

\* What get_product_from_upcitemdb ends in: it returns None (request or JSON
\* error), a body without items, or a body whose first item carries a list of
\* image URLs; or it raises something it does not catch (a body that is no
\* JSON object makes `'items' in data` raise).
LookupNone   == [kind |-> "None", items |-> 0, images |-> <<>>]
LookupEmpty  == [kind |-> "data", items |-> 0, images |-> <<>>]
LookupRaises == [kind |-> "raises", items |-> 0, images |-> <<>>]
Record(image_urls) == [kind |-> "data", items |-> 1, images |-> image_urls]

LookupFailures == {LookupNone, LookupEmpty, LookupRaises}
LookupResults  == LookupFailures \cup {Record(l) : l \in ImageLists}
\* The lookup service knows products without images only.
PlainResults   == LookupFailures \cup {Record(<<>>)}

\* `product_data and 'items' in product_data and product_data['items']`
HasItems(data) == data.kind = "data" /\ data.items > 0

VARIABLES
    processing_upcs,   \* the set processing_upcs
    cache,             \* Redis: upc -> value stored under 'upc:<upc>'
    files,             \* image files of non-zero size under static/upc_images
    req,               \* per handler thread: the request it serves, its locals
    jobs,              \* per job thread: its position and locals
    out                \* the response the last step returned, if it returned one

vars == <<processing_upcs, cache, files, req, jobs, out>>

IdleReq ==
    [op |-> "none", pc |-> "idle", upc |-> None, rows |-> <<>>, uniq |-> <<>>, idx |-> 0,
     is_cached |-> FALSE, todo |-> <<>>, prior |-> {}, launched |-> <<>>]

NoResponse ==
    [op |-> "none", upc |-> None, status |-> "none", body |-> None, during |-> FALSE]

\* A step that returns no response.
Silent == out' = NoResponse

IdleJob ==
    [pc |-> "idle", upc |-> None, data |-> LookupNone, i |-> 0,
     saved |-> <<>>, best |-> None, found |-> FALSE, rerun |-> FALSE]

Init ==
    /\ processing_upcs = {}
    /\ cache = [k \in Keys |-> NoEntry]
    /\ files = {}
    /\ req = [h \in Handlers |-> IdleReq]
    /\ jobs = [j \in JobIds |-> IdleJob]
    /\ out = NoResponse

Active(j) == jobs[j].pc # "idle"
ActiveFor(upc) == {j \in JobIds : Active(j) /\ jobs[j].upc = upc}
\* A new thread takes the first unused slot (thread identities are arbitrary).
FreeJobs == {j \in JobIds : ~Active(j) /\ \A g \in 1..(j - 1) : Active(g)}

\* ------------------------------------------------- helpers of the handlers
\* Variant: only an entry that decodes counts as present.
TruthyJsonOnly(v) == v.kind = "json"

\* Truth value of what redis_client.get returned (`if redis_client.get(...)`,
\* `if not cached_data`): None is false, stored bytes are true.
Truthy(v) == v.kind # "none"

\* redis_client.exists(cache_key)
Exists(v) == v.kind # "none"

\* `upc in processing_upcs`
InFlight(upc) == upc \in processing_upcs

\* json.loads(cached_data) succeeds
IsJson(v) == v.kind = "json"

\* A handler returns: the thread is free again.  `during` records whether a
\* job that was running for the key when the call came in is still running.
Respond(h, call, status, body) ==
    /\ req' = [req EXCEPT ![h] = IdleReq]
    /\ out' = [op |-> call.op, upc |-> call.upc, status |-> status, body |-> body,
               during |-> call.prior # {}]

\* A new request is served by the first thread that serves none.
Serving(h) == req[h].pc # "idle"
CanStart(h) == ~Serving(h) /\ \A g \in 1..(h - 1) : Serving(g)

\* Thread(target=process_upc_background, args=(upc,), daemon=True).start()
StartThread(j, upc) ==
    [jobs EXCEPT ![j] = [IdleJob EXCEPT !.pc = "lookup", !.upc = upc]]

\* ------------------------------------------- POST /api/process/<upc>
\* Validation and `if redis_client.get(cache_key):`.
ProcessUpcGet(h, upc) ==
    /\ CanStart(h)
    /\ LET call == [IdleReq EXCEPT !.op = "process_upc", !.upc = upc,
                                   !.prior = ActiveFor(upc)]
       IN  IF InvalidUpc(upc)
           THEN Respond(h, call, "invalid_upc", None)
           ELSE IF Truthy(cache[upc])
           THEN Respond(h, call, "already_cached", None)
           ELSE /\ req' = [req EXCEPT ![h] = [call EXCEPT !.pc = "p_member"]]
                /\ Silent
    /\ UNCHANGED <<processing_upcs, cache, files, jobs>>

\* `if upc in processing_upcs:`
ProcessUpcMember(h) ==
    /\ req[h].pc = "p_member"
    /\ IF InFlight(req[h].upc)
       THEN Respond(h, req[h], "processing", None)
       ELSE /\ req' = [req EXCEPT ![h] = [@ EXCEPT !.pc = "p_add"]]
            /\ Silent
    /\ UNCHANGED <<processing_upcs, cache, files, jobs>>

\* processing_upcs.add(upc) and the thread start.
ProcessUpcAdd(h) ==
    /\ req[h].pc = "p_add"
    /\ \E j \in FreeJobs :
         /\ processing_upcs' = processing_upcs \cup {req[h].upc}
         /\ jobs' = StartThread(j, req[h].upc)
    /\ Respond(h, req[h], "processing_started", None)
    /\ UNCHANGED <<cache, files>>

\* ------------------------------------------- GET /api/product/<upc>
\* Variant: a miss on the read path starts the job itself (read-through).
GetProductFetchesOnMiss(h, upc) ==
    /\ CanStart(h)
    /\ LET call        == [IdleReq EXCEPT !.op = "get_product", !.upc = upc]
           cached_data == cache[upc]
       IN  IF InvalidUpc(upc)
           THEN /\ Respond(h, call, "invalid_upc_format", None)
                /\ UNCHANGED <<processing_upcs, cache, jobs>>
           ELSE IF ~Truthy(cached_data)
           THEN /\ Respond(h, call, "not_found", None)
                /\ \E j \in FreeJobs :
                     /\ processing_upcs' = processing_upcs \cup {upc}
                     /\ jobs' = StartThread(j, upc)
                /\ cache' = cache
           ELSE IF IsJson(cached_data)
           THEN /\ Respond(h, call, "ok", cached_data)
                /\ UNCHANGED <<processing_upcs, cache, jobs>>
           ELSE /\ req' = [req EXCEPT ![h] = [call EXCEPT !.pc = "g_delete"]]
                /\ Silent
                /\ UNCHANGED <<processing_upcs, cache, jobs>>
    /\ UNCHANGED files

\* Validation, `cached_data = redis_client.get(cache_key)` and json.loads.
GetProductGet(h, upc) ==
    /\ CanStart(h)
    /\ LET call        == [IdleReq EXCEPT !.op = "get_product", !.upc = upc]
           cached_data == cache[upc]
       IN  IF InvalidUpc(upc)
           THEN Respond(h, call, "invalid_upc_format", None)
           ELSE IF ~Truthy(cached_data)
           THEN Respond(h, call, "not_found", None)
           ELSE IF IsJson(cached_data)
           THEN Respond(h, call, "ok", cached_data)
           ELSE /\ req' = [req EXCEPT ![h] = [call EXCEPT !.pc = "g_delete"]]
                /\ Silent
    /\ UNCHANGED <<processing_upcs, cache, files, jobs>>

\* Variant: the undecodable entry is reported and left in the store.
GetProductKeepsEntry(h) ==
    /\ req[h].pc = "g_delete"
    /\ Respond(h, req[h], "invalid_cache_data", None)
    /\ UNCHANGED <<processing_upcs, cache, files, jobs>>

\* except json.JSONDecodeError: redis_client.delete(cache_key)
GetProductDelete(h) ==
    /\ req[h].pc = "g_delete"
    /\ cache' = [cache EXCEPT ![req[h].upc] = NoEntry]
    /\ Respond(h, req[h], "invalid_cache_data", None)
    /\ UNCHANGED <<processing_upcs, files, jobs>>

\* ------------------------------------------- POST /api/process/batch
\* df['upc'].astype(str).unique(): the distinct values, in order of first
\* appearance.
RECURSIVE Unique(_)
Unique(rows) ==
    IF rows = <<>> THEN <<>>
    ELSE LET front == Unique(SubSeq(rows, 1, Len(rows) - 1))
             upc   == rows[Len(rows)]
         IN  IF \E n \in 1..Len(front) : front[n] = upc
             THEN front
             ELSE Append(front, upc)

BatchFiles == SeqsUpTo(Keys, MaxRows)

\* str(int(text)) for a text of digits: the leading zeros are gone.
RECURSIVE StripZeros(_)
StripZeros(t) ==
    IF Len(t) > 1 /\ Head(t) = "0" THEN StripZeros(Tail(t)) ELSE t

\* df = pd.read_csv(file) and df['upc'].astype(str): read_csv infers the type
\* of the column.  When every cell is a text of digits the column is int64 and
\* astype(str) prints the integers; with a cell that is no number the column
\* holds the cells as the strings they are.
ReadCsvUpc(rows) ==
    IF \A n \in 1..Len(rows) : IsDigit(rows[n])
    THEN [n \in 1..Len(rows) |-> StripZeros(rows[n])]
    ELSE rows

\* Variant: the first loop does not look at the characters of the key.
ToProcessAnyKey(is_cached, is_processing, upc) ==
    ~is_cached /\ ~is_processing

\* Whether the first loop appends the key to upcs_to_process.
ToProcess(is_cached, is_processing, upc) ==
    ~is_cached /\ ~is_processing /\ IsDigit(upc)

\* The file is read, the column converted and its distinct values taken.
ProcessBatchStart(h, rows) ==
    /\ CanStart(h)
    /\ req' = [req EXCEPT ![h] =
                 LET unique_upcs == Unique(ReadCsvUpc(rows))
                 IN  [IdleReq EXCEPT !.op = "process_batch", !.rows = rows,
                                     !.uniq = unique_upcs,
                                     !.idx = 1,
                                     !.pc = IF unique_upcs = <<>> THEN "b_dispatch"
                                            ELSE "b_exists"]]
    /\ UNCHANGED <<processing_upcs, cache, files, jobs>>
    /\ Silent

\* First loop, `is_cached = redis_client.exists(cache_key)`.
ProcessBatchExists(h) ==
    /\ req[h].pc = "b_exists"
    /\ req' = [req EXCEPT ![h] =
                 [@ EXCEPT !.pc = "b_member",
                           !.is_cached = Exists(cache[req[h].uniq[req[h].idx]])]]
    /\ UNCHANGED <<processing_upcs, cache, files, jobs>>
    /\ Silent

\* First loop, `is_processing = upc in processing_upcs` and the append.
ProcessBatchMember(h) ==
    /\ req[h].pc = "b_member"
    /\ LET r    == req[h]
           upc  == r.uniq[r.idx]
           todo == IF ToProcess(r.is_cached, InFlight(upc), upc)
                   THEN Append(r.todo, upc)
                   ELSE r.todo
       IN  req' = [req EXCEPT ![h] =
                     IF r.idx < Len(r.uniq)
                     THEN [@ EXCEPT !.pc = "b_exists", !.idx = r.idx + 1,
                                    !.is_cached = FALSE, !.todo = todo]
                     ELSE [@ EXCEPT !.pc = "b_dispatch", !.idx = 1,
                                    !.is_cached = FALSE, !.todo = todo]]
    /\ UNCHANGED <<processing_upcs, cache, files, jobs>>
    /\ Silent

\* Second loop: processing_upcs.add(upc) and the thread start, per key.
ProcessBatchDispatch(h) ==
    /\ req[h].pc = "b_dispatch"
    /\ req[h].idx <= Len(req[h].todo)
    /\ LET upc == req[h].todo[req[h].idx]
       IN  /\ \E j \in FreeJobs :
                /\ processing_upcs' = processing_upcs \cup {upc}
                /\ jobs' = StartThread(j, upc)
           /\ req' = [req EXCEPT ![h] =
                        [@ EXCEPT !.idx = @ + 1, !.launched = Append(@, upc)]]
    /\ UNCHANGED <<cache, files>>
    /\ Silent

BatchCounts(unique_upcs, upcs_to_process) ==
    [total_upcs_in_file  |-> Len(unique_upcs),
     upcs_queued         |-> Len(upcs_to_process),
     upcs_ignored_cached |-> Len(unique_upcs) - Len(upcs_to_process)]

ProcessBatchRespond(h) ==
    /\ req[h].pc = "b_dispatch"
    /\ req[h].idx > Len(req[h].todo)
    /\ Respond(h, req[h], "batch_processing_queued",
               BatchCounts(req[h].uniq, req[h].todo))
    /\ UNCHANGED <<processing_upcs, cache, files, jobs>>

\* ------------------------------------------------ save_product_images
\* `os.path.splitext(parsed_url.path)[1] or '.jpg'`
Ext(url) == IF url[3] = "" THEN ".jpg" ELSE url[3]

\* upc_dir / f"{upc}_{i}{ext}"
FilePath(upc, i, url) == <<"static/upc_images", upc, i, Ext(url)>>

\* urljoin(base_url, str(path))
ToUrl(path) == <<"BASE_URL", path>>

\* Variant: the test for a file already there never succeeds.
HasContentNever(path) == FALSE

\* `filepath.exists() and os.path.getsize(filepath) > 0`
HasContent(path) == path \in files

\* The paths of all the URLs of a record, in order.
AllPaths(upc, image_urls) ==
    [n \in 1..Len(image_urls) |-> FilePath(upc, n, image_urls[n])]

\* An earlier run of save_product_images for the same key and URLs has stored
\* every image (the program never deletes a file).
AllStored(upc, image_urls) ==
    \A n \in 1..Len(image_urls) : FilePath(upc, n, image_urls[n]) \in files

\* upc_dir exists: it holds a file.
DirExists(upc) == \E path \in files : path[2] = upc

\* What one download can end in: the request or anything else raised, the
\* bytes are not an image (UnidentifiedImageError), or a verified image.
FetchOutcomes == {"error", "not_image", "image"}

\* ----------------------------------------- get_best_image_with_gemini
DigitVal(c) ==
    CASE c = "0" -> 0 [] c = "1" -> 1 [] c = "2" -> 2 [] c = "3" -> 3 [] c = "4" -> 4
      [] c = "5" -> 5 [] c = "6" -> 6 [] c = "7" -> 7 [] c = "8" -> 8 [] c = "9" -> 9

\* str.strip()
RECURSIVE Strip(_)
Strip(t) ==
    IF t = <<>> THEN t
    ELSE IF Head(t) = " " THEN Strip(Tail(t))
    ELSE IF t[Len(t)] = " " THEN Strip(SubSeq(t, 1, Len(t) - 1))
    ELSE t

Unsigned(t) == IF t # <<>> /\ Head(t) \in {"-", "+"} THEN Tail(t) ELSE t

\* int(result_text) does not raise ValueError
IsIntText(t) == Unsigned(t) # <<>> /\ \A n \in 1..Len(Unsigned(t)) : Unsigned(t)[n] \in Digits

RECURSIVE Magnitude(_)
Magnitude(t) ==
    IF t = <<>> THEN 0 ELSE 10 * Magnitude(SubSeq(t, 1, Len(t) - 1)) + DigitVal(t[Len(t)])

\* int(result_text)
IntOf(t) == IF Head(t) = "-" THEN 0 - Magnitude(Unsigned(t)) ELSE Magnitude(Unsigned(t))

GeminiTexts ==
    {<<>>, <<"0">>, <<"1">>, <<"2">>, <<"3">>, <<"5">>, <<" ", "1", " ">>,
     <<"-", "1">>, <<"b", "a", "n", "a", "n", "a">>}

\* What the ranking call can end in: no API key configured, the client or the
\* call raises, or a response with a text.
GeminiOutcomes ==
    {[kind |-> "no_key", text |-> <<>>], [kind |-> "raises", text |-> <<>>]}
        \cup {[kind |-> "text", text |-> t] : t \in GeminiTexts}

\* The paths Image.open accepts, in order.
RECURSIVE ValidPaths(_, _)
ValidPaths(image_paths, opens) ==
    IF image_paths = <<>> THEN <<>>
    ELSE LET front == ValidPaths(SubSeq(image_paths, 1, Len(image_paths) - 1), opens)
         IN  IF Len(image_paths) \in opens
             THEN Append(front, image_paths[Len(image_paths)])
             ELSE front

\* Variant: the answer is taken as an index into the paths that were handed in.
GetBestImageOfSupplied(image_paths, outcome, opens) ==
    LET valid_paths == ValidPaths(image_paths, opens)
        result_text == Strip(outcome.text)
    IN  IF outcome.kind = "no_key" \/ image_paths = <<>> THEN None
        ELSE IF outcome.kind = "raises" THEN None
        ELSE IF valid_paths = <<>> THEN None
        ELSE IF outcome.text = <<>> THEN None
        ELSE IF ~IsIntText(result_text) THEN None
        ELSE IF IntOf(result_text) = 0 THEN None
        ELSE IF 0 <= IntOf(result_text) - 1 /\ IntOf(result_text) - 1 < Len(image_paths)
             THEN image_paths[IntOf(result_text)]
        ELSE None

\* `opens` holds the positions of the paths Image.open accepts (a file that
\* was found on disk at line 138 has never been verified by this run).
GetBestImageWithGemini(image_paths, outcome, opens) ==
    LET valid_paths == ValidPaths(image_paths, opens)
        result_text == Strip(outcome.text)
    IN  IF outcome.kind = "no_key" \/ image_paths = <<>> THEN None
        ELSE IF outcome.kind = "raises" THEN None
        ELSE IF valid_paths = <<>> THEN None
        ELSE IF outcome.text = <<>> THEN None
        ELSE IF ~IsIntText(result_text) THEN None
        ELSE IF IntOf(result_text) = 0 THEN None
        ELSE IF 0 <= IntOf(result_text) - 1 /\ IntOf(result_text) - 1 < Len(valid_paths)
             THEN valid_paths[IntOf(result_text)]
        ELSE None

\* ------------------------------------------------ format_product_data
\* Variant: the best image is given as its path on disk.
FormattedBestOnDisk(upc, image_urls, saved_paths, best_image_disk_path, from_cache) ==
    [kind       |-> "json",
     upc        |-> upc,
     images     |-> IF saved_paths # <<>>
                    THEN [n \in 1..Len(saved_paths) |-> ToUrl(saved_paths[n])]
                    ELSE image_urls,
     best_image |-> best_image_disk_path,
     cached     |-> from_cache]

\* Variant: the URLs that were not stored stay in the list as remote URLs.
FormattedFillsGaps(upc, image_urls, saved_paths, best_image_disk_path, from_cache) ==
    [kind       |-> "json",
     upc        |-> upc,
     images     |-> [n \in 1..Len(saved_paths) |-> ToUrl(saved_paths[n])]
                       \o SubSeq(image_urls, Len(saved_paths) + 1, Len(image_urls)),
     best_image |-> IF best_image_disk_path # None
                    THEN ToUrl(best_image_disk_path)
                    ELSE None,
     cached     |-> from_cache]

\* The dictionary format_product_data returns (title, brand and description
\* are copied from the record and left out here).
Formatted(upc, image_urls, saved_paths, best_image_disk_path, from_cache) ==
    [kind       |-> "json",
     upc        |-> upc,
     images     |-> IF saved_paths # <<>>
                    THEN [n \in 1..Len(saved_paths) |-> ToUrl(saved_paths[n])]
                    ELSE image_urls,
     best_image |-> IF best_image_disk_path # None
                    THEN ToUrl(best_image_disk_path)
                    ELSE None,
     cached     |-> from_cache]

\* --------------------------------------------- process_upc_background
\* The thread ends; handlers in progress forget it as a job they found running.
EndJob(j) ==
    /\ jobs' = [jobs EXCEPT ![j] = IdleJob]
    /\ req' = [h \in Handlers |->
                 [req[h] EXCEPT !.prior = @ \ {j}]]

\* The job reaches its finally block, by return or by exception: its other
\* locals are dead.  `found` keeps whether the lookup gave a record.
ToFinally(job) ==
    [IdleJob EXCEPT !.pc = "finally", !.upc = job.upc, !.found = HasItems(job.data)]

\* product_data = get_product_from_upcitemdb(upc) and the test that follows.
\* Variant: a lookup that gives no record is remembered in the cache.
JobLookupCachesMiss(j, results) ==
    /\ jobs[j].pc = "lookup"
    /\ \E product_data \in results :
         /\ jobs' = [jobs EXCEPT ![j] =
                      IF ~HasItems(product_data)
                      THEN [IdleJob EXCEPT !.pc = "finally", !.upc = jobs[j].upc]
                      ELSE IF product_data.images = <<>>
                      THEN [@ EXCEPT !.data = product_data, !.pc = "setex"]
                      ELSE [@ EXCEPT !.data = product_data, !.pc = "mkdir",
                                     !.rerun = AllStored(jobs[j].upc, product_data.images)]]
         /\ cache' = IF HasItems(product_data) THEN cache
                     ELSE [cache EXCEPT ![jobs[j].upc] =
                             [kind |-> "json", upc |-> jobs[j].upc, images |-> <<>>,
                              best_image |-> None, cached |-> FALSE]]
    /\ UNCHANGED <<processing_upcs, files, req>>
    /\ Silent

\* With a record, format_product_data starts: a record without image URLs
\* skips save_product_images and the selector and is composed at once.
\* `rerun` keeps whether save_product_images is entered after a run that stored
\* every image of the same key and URLs.
JobLookup(j, results) ==
    /\ jobs[j].pc = "lookup"
    /\ \E product_data \in results :
         jobs' = [jobs EXCEPT ![j] =
                    IF ~HasItems(product_data)
                    THEN ToFinally([@ EXCEPT !.data = product_data])
                    ELSE IF product_data.images = <<>>
                    THEN [@ EXCEPT !.data = product_data, !.pc = "setex"]
                    ELSE [@ EXCEPT !.data = product_data, !.pc = "mkdir",
                                   !.rerun = AllStored(jobs[j].upc, product_data.images)]]
    /\ UNCHANGED <<processing_upcs, cache, files, req>>
    /\ Silent

\* save_product_images before its loop: it creates the directories, which can
\* raise (outside the loop's try).  mkdir(exist_ok=True) does not raise for a
\* directory that exists.
JobMkdir(j) ==
    /\ jobs[j].pc = "mkdir"
    /\ \E mkdir_ok \in (IF DirExists(jobs[j].upc) THEN {TRUE} ELSE BOOLEAN) :
         jobs' = [jobs EXCEPT ![j] =
                    IF mkdir_ok
                    THEN [@ EXCEPT !.pc = "img_check", !.i = 1]
                    ELSE ToFinally(@)]
    /\ UNCHANGED <<processing_upcs, cache, files, req>>
    /\ Silent

\* The loop of save_product_images moves to its next URL, or ends: with saved
\* paths the selector is asked, without them the result is composed at once.
NextImage(job, saved_paths) ==
    IF job.i < Len(job.data.images)
    THEN [job EXCEPT !.pc = "img_check", !.i = job.i + 1, !.saved = saved_paths]
    ELSE [job EXCEPT !.pc = IF saved_paths # <<>> THEN "gemini" ELSE "setex",
                     !.saved = saved_paths]

\* One URL of the loop: the test for a file already there.
JobImageCheck(j) ==
    /\ jobs[j].pc = "img_check"
    /\ LET job      == jobs[j]
           filepath == FilePath(job.upc, job.i, job.data.images[job.i])
       IN  jobs' = [jobs EXCEPT ![j] =
                      IF HasContent(filepath)
                      THEN NextImage(job, Append(job.saved, filepath))
                      ELSE [job EXCEPT !.pc = "img_fetch"]]
    /\ UNCHANGED <<processing_upcs, cache, files, req>>
    /\ Silent

\* One URL of the loop: download, verify, write.
JobImageFetch(j) ==
    /\ jobs[j].pc = "img_fetch"
    /\ LET job      == jobs[j]
           filepath == FilePath(job.upc, job.i, job.data.images[job.i])
       IN  \E outcome \in FetchOutcomes :
             IF outcome = "image"
             THEN /\ files' = files \cup {filepath}
                  /\ jobs' = [jobs EXCEPT ![j] = NextImage(job, Append(job.saved, filepath))]
             ELSE /\ files' = files
                  /\ jobs' = [jobs EXCEPT ![j] = NextImage(job, job.saved)]
    /\ UNCHANGED <<processing_upcs, cache, req>>
    /\ Silent

\* The selector call of format_product_data, for one outcome of the ranking
\* call and one set of files that open.
JobGeminiWith(j, outcome, opens) ==
    /\ jobs[j].pc = "gemini"
    /\ jobs' = [jobs EXCEPT ![j] =
                 [@ EXCEPT !.pc = "setex",
                           !.best = GetBestImageWithGemini(jobs[j].saved, outcome, opens)]]
    /\ UNCHANGED <<processing_upcs, cache, files, req>>
    /\ Silent

JobGemini(j) ==
    \E outcome \in GeminiOutcomes, opens \in SUBSET (1..Len(jobs[j].saved)) :
        JobGeminiWith(j, outcome, opens)

\* redis_client.setex(cache_key, ttl, json.dumps(formatted)); it can raise.
JobSetex(j) ==
    /\ jobs[j].pc = "setex"
    /\ LET job       == jobs[j]
           formatted == Formatted(job.upc, job.data.images, job.saved, job.best, FALSE)
       IN  \E redis_ok \in BOOLEAN :
             IF redis_ok
             THEN /\ cache' = [cache EXCEPT ![job.upc] = formatted]
                  /\ jobs' = [jobs EXCEPT ![j] = ToFinally(@)]
             ELSE /\ cache' = cache
                  /\ jobs' = [jobs EXCEPT ![j] = ToFinally(@)]
    /\ UNCHANGED <<processing_upcs, files, req>>
    /\ Silent

\* Variant: the key is released on the normal path only, not after the lookup
\* gave no record.
JobReleasesOnSuccess(j) ==
    /\ jobs[j].pc = "finally"
    /\ processing_upcs' = IF jobs[j].found THEN processing_upcs \ {jobs[j].upc}
                          ELSE processing_upcs
    /\ EndJob(j)
    /\ UNCHANGED <<cache, files>>
    /\ Silent

\* finally: `if upc in processing_upcs: processing_upcs.remove(upc)`, and the
\* thread ends.  Test and removal are one step: when another thread removes
\* the key between them, remove raises KeyError in a thread that is ending
\* anyway, and the set is the same.
JobFinally(j) ==
    /\ jobs[j].pc = "finally"
    /\ processing_upcs' = processing_upcs \ {jobs[j].upc}
    /\ EndJob(j)
    /\ UNCHANGED <<cache, files>>
    /\ Silent

\* The steps of a job that touch no image.
JobCore(j, results) ==
    \/ JobLookup(j, results)
    \/ JobSetex(j)
    \/ JobFinally(j)

\* The steps of save_product_images and get_best_image_with_gemini.
JobImages(j) ==
    \/ JobMkdir(j)
    \/ JobImageCheck(j)
    \/ JobImageFetch(j)
    \/ JobGemini(j)

\* ---------------------------------------------------------- environment
\* Redis drops an entry whose TTL has run out.
Expire(upc) ==
    /\ cache[upc] # NoEntry
    /\ cache' = [cache EXCEPT ![upc] = NoEntry]
    /\ UNCHANGED <<processing_upcs, files, req, jobs>>
    /\ Silent

\* Something else writes bytes that are not JSON under the key.
ForeignWrite(upc) ==
    /\ IsDigit(upc)
    /\ cache[upc] # Junk
    /\ cache' = [cache EXCEPT ![upc] = Junk]
    /\ UNCHANGED <<processing_upcs, files, req, jobs>>
    /\ Silent

\* ------------------------------------------------------- specifications
ProcessUpc(h, keys) ==
    \/ \E upc \in keys : ProcessUpcGet(h, upc)
    \/ ProcessUpcMember(h)
    \/ ProcessUpcAdd(h)

GetProduct(h, keys) ==
    \/ \E upc \in keys : GetProductGet(h, upc)
    \/ GetProductDelete(h)

\* The loops and the response of process_batch.
ProcessBatchRun(h) ==
    \/ ProcessBatchExists(h)
    \/ ProcessBatchMember(h)
    \/ ProcessBatchDispatch(h)
    \/ ProcessBatchRespond(h)

\* The whole program: every endpoint, every key, every lookup result.
Next ==
    \/ \E h \in Handlers : ProcessUpc(h, Keys)
    \/ \E h \in Handlers : GetProduct(h, Keys)
    \/ \E h \in Handlers, rows \in BatchFiles : ProcessBatchStart(h, rows)
    \/ \E h \in Handlers : ProcessBatchRun(h)
    \/ \E j \in JobIds : JobCore(j, LookupResults)
    \/ \E j \in JobIds : JobImages(j)
    \/ \E upc \in Keys : Expire(upc)
    \/ \E upc \in Keys : ForeignWrite(upc)

Spec == Init /\ [][Next]_vars

\* The coordinator: the single-key endpoint that starts jobs, over two valid
\* keys and an invalid one, with products that carry no image.
CoordNext ==
    \/ \E h \in Handlers : ProcessUpc(h, Keys)
    \/ \E j \in JobIds : JobCore(j, PlainResults)
    \/ \E upc \in Keys : Expire(upc)
    \/ \E upc \in Keys : ForeignWrite(upc)

CoordSpec == Init /\ [][CoordNext]_vars

\* The batch endpoint next to the single-key one: one batch file is submitted
\* at a time, over all the keys, while single requests come in for one key.
NoBatch == \A h \in Handlers : req[h].op # "process_batch"

BatchNext ==
    \/ \E h \in Handlers : ProcessUpc(h, {K1})
    \/ \E h \in Handlers, rows \in BatchFiles : NoBatch /\ ProcessBatchStart(h, rows)
    \/ \E h \in Handlers : ProcessBatchRun(h)
    \/ \E j \in JobIds : JobCore(j, PlainResults)
    \/ \E upc \in Keys : Expire(upc)

BatchSpec == Init /\ [][BatchNext]_vars

\* Both endpoints that insert keys, over one valid key and an invalid one.
ReleaseNext ==
    \/ \E h \in Handlers : ProcessUpc(h, {K1, KBad})
    \/ \E h \in Handlers, rows \in SeqsUpTo({K1, KBad}, MaxRows) : ProcessBatchStart(h, rows)
    \/ \E h \in Handlers : ProcessBatchRun(h)
    \/ \E j \in JobIds : JobCore(j, PlainResults)
    \/ Expire(K1)

\* Every started thread keeps running until it ends: each call a job makes
\* returns or times out, and the scheduler starves no thread.
ReleaseFair ==
    /\ Init /\ [][ReleaseNext]_vars
    /\ \A j \in JobIds : WF_vars(JobCore(j, PlainResults))

\* The read path next to the single-key endpoint, over one valid key and an
\* invalid one, with entries that are not JSON appearing in the store.
ReadNext ==
    \/ \E h \in Handlers : GetProduct(h, {K1, KBad})
    \/ \E h \in Handlers : ProcessUpc(h, {K1, KBad})
    \/ \E j \in JobIds : JobCore(j, PlainResults)
    \/ Expire(K1)
    \/ ForeignWrite(K1)

ReadSpec == Init /\ [][ReadNext]_vars

\* The job pipeline with images, over one valid key.
PipelineNext ==
    \/ \E h \in Handlers : ProcessUpc(h, {K1})
    \/ \E j \in JobIds : JobCore(j, LookupResults)
    \/ \E j \in JobIds : JobImages(j)
    \/ Expire(K1)

PipelineSpec == Init /\ [][PipelineNext]_vars

\* Every endpoint that takes a key, over one valid key and an invalid one.
ValidationNext ==
    \/ \E h \in Handlers : ProcessUpc(h, {K1, KBad})
    \/ \E h \in Handlers : GetProduct(h, {K1, KBad})
    \/ \E h \in Handlers, rows \in SeqsUpTo({K1, KBad}, MaxRows) :
           NoBatch /\ ProcessBatchStart(h, rows)
    \/ \E h \in Handlers : ProcessBatchRun(h)
    \/ \E j \in JobIds : JobCore(j, PlainResults)
    \/ Expire(K1)
    \/ ForeignWrite(K1)

ValidationSpec == Init /\ [][ValidationNext]_vars

\* The selector on lists of up to MaxSupplied stored images: a job for K1 has
\* looked up a record with image URLs, save_product_images has returned the
\* paths of those it found or stored, and the selector is about to be asked.
SuppliedUrls == RemoteUrls \cup {<<"remote", "b", ".png">>}

SuppliedLists ==
    {l \in SeqsUpTo(SuppliedUrls, MaxSupplied) : l # <<>>}

\* The paths save_product_images returns when the URLs at the positions `kept`
\* are the ones it found or stored.
RECURSIVE SavedPaths(_, _, _)
SavedPaths(upc, image_urls, kept) ==
    IF image_urls = <<>> THEN <<>>
    ELSE LET n     == Len(image_urls)
             front == SavedPaths(upc, SubSeq(image_urls, 1, n - 1), kept)
         IN  IF n \in kept THEN Append(front, FilePath(upc, n, image_urls[n]))
             ELSE front

SelectInit ==
    /\ processing_upcs = {K1}
    /\ cache = [k \in Keys |-> NoEntry]
    /\ req = [h \in Handlers |-> IdleReq]
    /\ out = NoResponse
    /\ \E image_urls \in SuppliedLists :
         \E kept \in SUBSET (1..Len(image_urls)) :
            /\ kept # {}
            /\ files = {FilePath(K1, n, image_urls[n]) : n \in kept}
            /\ jobs = [j \in JobIds |->
                         IF j = 1
                         THEN [IdleJob EXCEPT !.pc = "gemini", !.upc = K1,
                                              !.data = Record(image_urls),
                                              !.i = Len(image_urls),
                                              !.saved = SavedPaths(K1, image_urls, kept)]
                         ELSE IdleJob]

SelectNext ==
    \/ \E j \in JobIds : JobGemini(j)
    \/ \E j \in JobIds : JobSetex(j)
    \/ \E j \in JobIds : JobFinally(j)
    \/ Expire(K1)

SelectSpec == SelectInit /\ [][SelectNext]_vars

\* ------------------------------------------------------------------ claims
\* C1: under every interleaving of requests, batches and jobs, at most one
\* background job for a given key is active at any time.
SingleJobPerKey == \A upc \in Keys : Cardinality(ActiveFor(upc)) <= 1

\* C2: a RequestProcessing(K) call made while a prior job for K is in flight
\* spawns no second job (the single-flight invariant): it is not answered
\* "started".
NoSecondJobDuringJob ==
    (out.op = "process_upc" /\ out.during) => out.status # "processing_started"

\* C3: in every reachable state, a key is in the InFlightSet if and only if a
\* background job currently owns it.
InFlightIffOwned ==
    \A upc \in Keys : (upc \in processing_upcs) <=> (ActiveFor(upc) # {})

\* C4: every key inserted into processing_upcs is eventually removed, whatever
\* way its job ends (lookup failure, unexpected error, cache write failure,
\* success): no key stays in flight forever.
EveryKeyReleased ==
    \A upc \in Keys : (upc \in processing_upcs) ~> (upc \notin processing_upcs)

\* A job has reached its finally block while its key is still in flight.
ReleasePending ==
    \E j \in JobIds : jobs[j].pc = "finally" /\ jobs[j].upc \in processing_upcs

\* C5: for every valid key with a live cache entry, RequestProcessing returns
\* already_cached and changes nothing: not the InFlightSet, not the cache, not
\* a file, and no job is started or moved (so no network call is made).
CachedRequestHasNoEffect ==
    [][\A h \in Handlers, upc \in Keys :
         (ProcessUpcGet(h, upc) /\ ~InvalidUpc(upc) /\ cache[upc] # NoEntry)
             => /\ out'.op = "process_upc"
                /\ out'.upc = upc
                /\ out'.status = "already_cached"
                /\ UNCHANGED <<processing_upcs, cache, files, jobs>>]_vars

\* A request has just been answered already_cached while another key is in flight.
AnsweredFromCache ==
    /\ out.op = "process_upc"
    /\ out.status = "already_cached"
    /\ cache[out.upc] # NoEntry
    /\ processing_upcs # {}

\* C6: a job whose lookup gives no record (None, no items, or an exception)
\* writes nothing to the cache, in the lookup step and in its exit, and its key
\* is not in the InFlightSet when it has ended.
FailedLookupWritesNothing ==
    [][\A j \in JobIds :
         /\ (jobs[j].pc = "lookup" /\ jobs'[j].pc = "finally") => cache' = cache
         /\ (jobs[j].pc = "finally" /\ ~jobs[j].found /\ jobs'[j].pc = "idle")
                => /\ cache' = cache
                   /\ jobs[j].upc \notin processing_upcs']_vars

\* A job whose lookup gave no record is at its exit, its key still in flight
\* and without a cache entry.
FailedJobAtExit ==
    \E j \in JobIds :
        /\ jobs[j].pc = "finally"
        /\ ~jobs[j].found
        /\ jobs[j].upc \in processing_upcs
        /\ cache[jobs[j].upc] = NoEntry

\* C7: failures inside the image pipeline or the selector never abort a job:
\* once the lookup has given a record, no step of save_product_images or of
\* the selector takes the job to its exit without the cache write.
ImageFailureNeverAborts ==
    [][\A j \in JobIds :
         jobs[j].pc \in {"mkdir", "img_check", "img_fetch", "gemini"}
             => jobs'[j].pc # "finally"]_vars

BatchSkipsInFlightKeys ==
    [][\A h \in Handlers :
         (req[h].pc = "b_dispatch" /\ req'[h].pc = "b_dispatch"
              /\ req'[h].idx = req[h].idx + 1)
             => req[h].todo[req[h].idx] \notin processing_upcs]_vars

\* The distinct rows of a batch file.
RowSet(rows) == {rows[n] : n \in 1..Len(rows)}

\* C11: the counts a batch submission reports follow the dedup-then-filter
\* rule: total is the number of distinct keys of the submitted file, queued is
\* the number of jobs the batch started, and total = queued + ignored.
BatchCountsFollowRule ==
    [][\A h \in Handlers :
         (req[h].pc = "b_dispatch" /\ req'[h].pc = "idle")
             => /\ out'.body.total_upcs_in_file = Cardinality(RowSet(req[h].rows))
                /\ out'.body.upcs_queued = Len(req[h].launched)
                /\ out'.body.total_upcs_in_file
                       = out'.body.upcs_queued + out'.body.upcs_ignored_cached]_vars

\* C12: the ignored count counts the keys that were already cached or already
\* in flight when the batch examined them: the count is the number of distinct
\* keys the first loop left out of upcs_to_process, and every key it leaves
\* out is cached or in flight at that moment.
IgnoredCountsKnownKeys ==
    [][\A h \in Handlers :
         /\ (req[h].pc = "b_member" /\ req'[h].pc # "b_member"
                /\ req'[h].todo = req[h].todo)
                => (req[h].is_cached \/ InFlight(req[h].uniq[req[h].idx]))
         /\ (req[h].pc = "b_dispatch" /\ req'[h].pc = "idle")
                => out'.body.upcs_ignored_cached
                      = Len(req[h].uniq) - Len(req[h].todo)]_vars

\* C13: a key that is empty or not all-digit is rejected by RequestProcessing
\* and by GetCached with the invalid-key error and no state change, and no
\* operation, single or batch, ever puts such a key into the InFlightSet,
\* starts a job for it or writes a cache entry for it.
InvalidKeyNeverEnters ==
    /\ [](\A upc \in Keys :
            InvalidUpc(upc) => /\ upc \notin processing_upcs
                               /\ ActiveFor(upc) = {}
                               /\ cache[upc] = NoEntry)
    /\ [][\A h \in Handlers, upc \in Keys :
            /\ (InvalidUpc(upc) /\ ProcessUpcGet(h, upc))
                   => /\ out' = [NoResponse EXCEPT !.op = "process_upc", !.upc = upc,
                                                   !.status = "invalid_upc"]
                      /\ UNCHANGED <<processing_upcs, cache, files, jobs>>
            /\ (InvalidUpc(upc) /\ GetProductGet(h, upc))
                   => /\ out' = [NoResponse EXCEPT !.op = "get_product", !.upc = upc,
                                                   !.status = "invalid_upc_format"]
                      /\ UNCHANGED <<processing_upcs, cache, files, jobs>>]_vars

\* A read of an invalid key has just been rejected while a job is in flight.
InvalidKeyRejected ==
    /\ out.op = "get_product"
    /\ out.status = "invalid_upc_format"
    /\ InvalidUpc(out.upc)
    /\ processing_upcs # {}

\* The ranking call answered with a text.
TextOutcomes == {o \in GeminiOutcomes : o.kind = "text" /\ o.text # <<>>}

\* The image a response text selects from a list, as the claim maps it: a text
\* that is no integer gives none, 0 gives none, N within the list gives its
\* N-th entry, any other integer gives none.
Selected(list, text) ==
    IF ~IsIntText(Strip(text)) THEN None
    ELSE LET N == IntOf(Strip(text))
         IN  IF N = 0 THEN None
             ELSE IF 1 <= N /\ N <= Len(list) THEN list[N]
             ELSE None

\* The entries of a list at the positions in `opens`, in order.
Opened(list, opens) ==
    LET pos == {n \in 1..Len(list) : n \in opens}
        F[k \in 0..Len(list)] ==
            IF k = 0 THEN <<>>
            ELSE IF k \in pos THEN Append(F[k - 1], list[k]) ELSE F[k - 1]
    IN  F[Len(list)]

\* C14 as stated: SelectBest maps the ranking response to the N-th of the
\* supplied images: non-integer gives none, 0 gives none, 1 <= N <= number of
\* supplied images gives the N-th supplied image, any other integer none.
SelectBestIndexesSupplied ==
    [][\A j \in JobIds, outcome \in TextOutcomes :
         \A opens \in SUBSET (1..Len(jobs[j].saved)) :
           JobGeminiWith(j, outcome, opens)
             => jobs'[j].best = Selected(jobs[j].saved, outcome.text)]_vars

\* C14 as amended: the response is mapped to the N-th of the supplied images
\* that could be opened (the images the ranking service was sent): non-integer
\* gives none, 0 gives none, 1 <= N <= number of opened images gives the N-th
\* opened image, any other integer none.
SelectBestIndexesOpened ==
    [][\A j \in JobIds, outcome \in TextOutcomes :
         \A opens \in SUBSET (1..Len(jobs[j].saved)) :
           JobGeminiWith(j, outcome, opens)
             => jobs'[j].best
                  = Selected(Opened(jobs[j].saved, opens), outcome.text)]_vars

\* The selector has picked the third of three supplied images.
ThirdOfThreeSelected ==
    \E j \in JobIds :
        /\ jobs[j].pc = "setex"
        /\ Len(jobs[j].saved) = 3
        /\ jobs[j].best = jobs[j].saved[3]

\* C15: save_product_images is idempotent: a run for a key and URLs of which
\* an earlier run has stored every image makes no download and returns the
\* same ordered list of paths, one per URL, as that run.
RerunFetchesNothing ==
    /\ [](\A j \in JobIds :
            jobs[j].rerun
               => /\ jobs[j].pc # "img_fetch"
                  /\ jobs[j].pc \in {"gemini", "setex"}
                        => jobs[j].saved = AllPaths(jobs[j].upc, jobs[j].data.images))
    /\ [][\A j \in JobIds :
            (jobs[j].rerun /\ jobs[j].pc \in {"mkdir", "img_check"})
               => jobs'[j].pc \in {"mkdir", "img_check", "gemini"}]_vars

\* A second run over stored images has returned the full list of paths.
RerunReturnedAll ==
    \E j \in JobIds :
        /\ jobs[j].rerun
        /\ jobs[j].pc = "gemini"
        /\ Len(jobs[j].saved) = MaxImages

\* C16: a stored image is never overwritten once present with non-zero size:
\* no job writes a downloaded image to a path where a file already is.
StoredImageNeverRewritten ==
    [][\A j \in JobIds :
         (jobs[j].pc = "img_fetch" /\ Len(jobs'[j].saved) > Len(jobs[j].saved))
            => FilePath(jobs[j].upc, jobs[j].i, jobs[j].data.images[jobs[j].i])
                  \notin files]_vars

\* C17: within a job the cache write comes before the in-flight marker is
\* cleared: a job whose lookup gave a record reaches its finally block, where
\* the key is removed, only with the entry for its key in the cache.
CacheWrittenBeforeRelease ==
    [][\A j \in JobIds :
         (jobs[j].pc # "finally" /\ jobs'[j].pc = "finally" /\ jobs'[j].found)
            => cache'[jobs'[j].upc] # NoEntry]_vars

\* C18: every result GetCached returns, read from the cache, carries the
\* served-from-cache flag set to true.
ReadResultFlaggedCached ==
    (out.op = "get_product" /\ out.status = "ok") => out.body.cached = TRUE

\* C19: in every result in the cache the best image is absent or is one of
\* the entries of the image list of the same result.
BestImageAmongImages ==
    \A upc \in Keys :
        cache[upc].kind = "json"
           => \/ cache[upc].best_image = None
              \/ \E n \in 1..Len(cache[upc].images) :
                    cache[upc].images[n] = cache[upc].best_image

\* A cached result names the second of its two images as the best one.
SecondImageIsBest ==
    \E upc \in Keys :
        /\ cache[upc].kind = "json"
        /\ Len(cache[upc].images) = 2
        /\ cache[upc].best_image = cache[upc].images[2]

\* The URL of an image file this program stored.
IsStoredUrl(url) == \E path \in files : url = ToUrl(path)

\* C20: the image list a job writes is exactly the URLs of the paths its
\* save_product_images returned, in order, or, when that returned none, the
\* remote URLs of the record unchanged with no best image; a cached list never
\* mixes stored and remote URLs.
ImagesStoredOrRemote ==
    /\ [](\A upc \in Keys :
            cache[upc].kind = "json"
               => \/ \A n \in 1..Len(cache[upc].images) : IsStoredUrl(cache[upc].images[n])
                  \/ /\ \A n \in 1..Len(cache[upc].images) :
                           cache[upc].images[n] \in RemoteUrls
                     /\ cache[upc].best_image = None)
    /\ [][\A j \in JobIds :
            (jobs[j].pc = "setex" /\ jobs'[j].pc = "finally"
                /\ cache'[jobs[j].upc] # cache[jobs[j].upc])
               => LET entry == cache'[jobs[j].upc]
                      saved == jobs[j].saved
                  IN  IF saved # <<>>
                      THEN entry.images = [n \in 1..Len(saved) |-> ToUrl(saved[n])]
                      ELSE /\ entry.images = jobs[j].data.images
                           /\ entry.best_image = None]_vars

\* A cached result lists only the second image of its record: the first URL
\* failed, the second was stored.
OnlySecondImageStored ==
    \E upc \in Keys :
        /\ cache[upc].kind = "json"
        /\ Len(cache[upc].images) = 1
        /\ \E url \in RemoteUrls : cache[upc].images[1] = ToUrl(FilePath(upc, 2, url))

====
